---------------------------- MODULE Spec2Model ----------------------------
(***************************************************************************)
(* A model of src/scrapper.py: the job scraper for architecture firms.     *)
(*                                                                         *)
(* Text is modelled by TLA+ strings, over which Len, SubSeq and \o are the *)
(* sequence operators.  A parsed HTML document is the record of what the   *)
(* program reads from it: its anchors in document order, the texts of its  *)
(* h1/h2 headings in document order and its title element, if any.         *)
(***************************************************************************)
EXTENDS Integers, Sequences, FiniteSets, TLC

(***************************************************************************)
(* Bounds of the model.                                                    *)
(***************************************************************************)
\* longest list of input lines drawn from the whole pool of lines
MaxLines == 2
\* firms beyond the size of the worker pool in the long input lists
MaxExtra == 1
\* longest sequence of anchors of a drawn root or career page
MaxAnchors == 2

(***************************************************************************)
(* Python's str methods and the regular expression TITLE_RE.               *)
(***************************************************************************)
UpperLetters == "ABCDEFGHIJKLMNOPQRSTUVWXYZ"
LowerLetters == "abcdefghijklmnopqrstuvwxyz"
DigitsUnderscore == "0123456789_"
Whitespace == {" ", "\t", "\n"}

CharAt(s, i) == SubSeq(s, i, i)

\* the characters of a string
Chars(alphabet) == {CharAt(alphabet, i) : i \in 1..Len(alphabet)}

\* the lower-case letter of each upper-case letter
LowerOf ==
    [c \in Chars(UpperLetters) |->
        CharAt(LowerLetters, CHOOSE i \in 1..26 : CharAt(UpperLetters, i) = c)]

\* str.lower() of one character
LowerCh(c) == IF c \in DOMAIN LowerOf THEN LowerOf[c] ELSE c

RECURSIVE LowerFrom(_, _)
\* the lower-case of s from its i-th character on
LowerFrom(s, i) ==
    IF i > Len(s) THEN "" ELSE LowerCh(CharAt(s, i)) \o LowerFrom(s, i + 1)

\* str.lower()
Lower(s) == LowerFrom(s, 1)

Min(S) == CHOOSE i \in S : \A j \in S : i <= j
Max(S) == CHOOSE i \in S : \A j \in S : j <= i

\* s from the first to the last of the places keep
Kept(s, keep) == IF keep = {} THEN "" ELSE SubSeq(s, Min(keep), Max(keep))

\* str.strip(): s from its first to its last character that is not whitespace
Strip(s) == Kept(s, {i \in 1..Len(s) : CharAt(s, i) \notin Whitespace})

\* the places where sub occurs in s
Occurrences(sub, s) ==
    {i \in 1..(Len(s) - Len(sub) + 1) : SubSeq(s, i, i + Len(sub) - 1) = sub}

\* Python's `sub in s`
Contains(sub, s) == Occurrences(sub, s) # {}

StartsWith(s, prefix) ==
    Len(s) >= Len(prefix) /\ SubSeq(s, 1, Len(prefix)) = prefix

WordChars == Chars(UpperLetters) \cup Chars(LowerLetters) \cup Chars(DigitsUnderscore)

\* \w of a regular expression
IsWordCh(c) == c \in WordChars

KEYWORDS ==
    << "career", "careers", "job", "jobs", "vacancy", "vacancies",
       "join us", "work with us", "opportunities", "employment" >>

TitleWords ==
    { "architect", "designer", "manager", "coordinator", "intern",
      "assistant", "director", "drafter" }

\* one of the title words stands in low between word boundaries
TitleWordIn(low) ==
    \E w \in TitleWords : \E i \in Occurrences(w, low) :
        /\ (i = 1 \/ ~IsWordCh(CharAt(low, i - 1)))
        /\ (i + Len(w) > Len(low) \/ ~IsWordCh(CharAt(low, i + Len(w))))

\* TITLE_RE.search(text): one of the words, between word boundaries, any case
TITLE_RE(text) == TitleWordIn(Lower(text))

(***************************************************************************)
(* urllib.parse.urljoin, for the URLs the model draws: an http(s) origin   *)
(* with a path, and references that are absolute, scheme-relative,         *)
(* root-relative, relative, fragment-only or empty.  No URL of the model   *)
(* has a query, parameters, dot segments or empty path segments.           *)
(***************************************************************************)
Letters == Chars(UpperLetters) \cup Chars(LowerLetters)

\* the colon at place first ends a scheme: only letters stand before it
SchemeEndAt(url, first) ==
    IF first > 1 /\ \A k \in 1..(first - 1) : CharAt(url, k) \in Letters
    THEN first ELSE 0

FirstOrZero(places) == IF places = {} THEN 0 ELSE Min(places)

\* the place of the colon that ends the scheme of url, 0 when it has none
SchemeEnd(url) == SchemeEndAt(url, FirstOrZero(Occurrences(":", url)))

\* the network location of rest (which starts with //) ends before the
\* first of the places stops, or with rest
NetlocEndAt(rest, stops) == IF stops = {} THEN Len(rest) ELSE Min(stops) - 1

NetlocEnd(rest) ==
    NetlocEndAt(rest, {i \in 3..Len(rest) : CharAt(rest, i) \in {"/", "?", "#"}})

\* the parts of a URL of the given scheme and rest, the network location
\* of rest ending at stop
SplitRest(scheme, rest, stop) ==
    IF StartsWith(rest, "//")
    THEN [scheme |-> scheme, has_netloc |-> TRUE,
          netloc |-> SubSeq(rest, 3, stop),
          path |-> SubSeq(rest, stop + 1, Len(rest))]
    ELSE [scheme |-> scheme, has_netloc |-> FALSE, netloc |-> "", path |-> rest]

SplitAt(url, colon, rest) ==
    SplitRest(Lower(SubSeq(url, 1, colon - 1)), rest, NetlocEnd(rest))

SplitScheme(url, colon) == SplitAt(url, colon, SubSeq(url, colon + 1, Len(url)))

\* urlsplit(url): the scheme, the network location and the rest (the path,
\* with the fragment)
urlsplit(url) == SplitScheme(url, SchemeEnd(url))

Unbalanced(netloc) == Contains("[", netloc) # Contains("]", netloc)

\* urlsplit raises ValueError("Invalid IPv6 URL") on an unbalanced bracket
UrlsplitRaises(url) == Unbalanced(urlsplit(url).netloc)

\* urljoin(base, url) raises
UrljoinRaises(base, url) ==
    base # "" /\ url # "" /\ (UrlsplitRaises(base) \/ UrlsplitRaises(url))

LastSlash(path, slashes) ==
    IF slashes = {} THEN "/" ELSE SubSeq(path, 1, Max(slashes))

\* the directory of a path: up to its last slash
DirOf(path) == LastSlash(path, Occurrences("/", path))

\* urljoin of base and url, split into b and u
Joined(base, url, b, u) ==
    IF base = "" THEN url
    ELSE IF url = "" THEN base
    ELSE IF u.scheme # "" /\ u.scheme # b.scheme THEN url
    ELSE IF u.has_netloc THEN b.scheme \o "://" \o u.netloc \o u.path
    ELSE IF StartsWith(u.path, "#") THEN base \o u.path
    ELSE IF StartsWith(u.path, "/") THEN b.scheme \o "://" \o b.netloc \o u.path
    ELSE b.scheme \o "://" \o b.netloc \o DirOf(b.path) \o u.path

\* urljoin(base, url) when it does not raise
urljoin(base, url) == Joined(base, url, urlsplit(base), urlsplit(url))

(***************************************************************************)
(* Pages.  fetch returns the body of the page or None; a body is modelled  *)
(* by the parse BeautifulSoup makes of it, and by whether it is the empty  *)
(* string.                                                                 *)
(***************************************************************************)
Anchor(text, href) == [has_href |-> TRUE, href |-> href, text |-> text]

\* an <a> element without an href attribute
AnchorNoHref(text) == [has_href |-> FALSE, href |-> "", text |-> text]

\* title is <<>> without a title element, else << soup.title.string or "" >>
Doc(anchors, headings, title) ==
    [empty |-> FALSE, anchors |-> anchors, headings |-> headings, title |-> title]

\* the body ""
EmptyBody == [empty |-> TRUE, anchors |-> << >>, headings |-> << >>, title |-> << >>]

\* fetch's None
None == [ok |-> FALSE, text |-> EmptyBody]

Body(doc) == [ok |-> TRUE, text |-> doc]

\* Python's `not html` of a fetch result
Falsy(html) == ~html.ok \/ html.text.empty

\* soup.find_all("a", href=True)
find_all_a(doc) == SelectSeq(doc.anchors, LAMBDA a : a.has_href)

(***************************************************************************)
(* find_career_pages and extract_openings.  A call either returns a list   *)
(* or raises: [raised |-> TRUE] stands for the ValueError of urljoin.      *)
(***************************************************************************)
Returned(value) == [raised |-> FALSE, value |-> value]
Raised == [raised |-> TRUE, value |-> << >>]

HasKeyword(text, href) ==
    \E k \in 1..Len(KEYWORDS) :
        Contains(KEYWORDS[k], text) \/ Contains(KEYWORDS[k], href)

\* any(kw in text or kw in href for kw in KEYWORDS), lines 48-50
KeywordMatch(a) == HasKeyword(Lower(a.text), Lower(a.href))

\* the mutant of Unseen: the membership check is lost
UnseenAlways(link, seen) == TRUE

\* `link not in seen`, line 58
Unseen(link, seen) == link \notin seen

RECURSIVE DropDuplicates(_, _, _)
\* the loop of lines 55-60 over the rest of links
DropDuplicates(links, seen, clean) ==
    IF links = << >> THEN clean
    ELSE IF Unseen(Head(links), seen)
         THEN DropDuplicates(Tail(links), seen \cup {Head(links)},
                             Append(clean, Head(links)))
         ELSE DropDuplicates(Tail(links), seen, clean)

\* the anchors whose href find_career_pages resolves
CareerAnchors(doc) == SelectSeq(find_all_a(doc), KeywordMatch)

\* lines 51-61, of the anchors as that matched
Located(root_url, as) ==
    IF \E i \in 1..Len(as) : UrljoinRaises(root_url, as[i].href)
    THEN Raised
    ELSE Returned(DropDuplicates([i \in 1..Len(as) |-> urljoin(root_url, as[i].href)],
                                 {}, << >>))

find_career_pages(root_url, doc) == Located(root_url, CareerAnchors(doc))

\* the stripped text is a job title, lines 78-79
IsJobTitle(text) == Len(text) > 4 /\ TITLE_RE(text)

IsJobAnchor(a) == IsJobTitle(Strip(a.text))

\* the guess of lines 85-86
Guess(doc) ==
    IF doc.headings # << >> THEN Strip(doc.headings[1])
    ELSE IF doc.title # << >> THEN doc.title[1]
    ELSE ""

\* the mutant of NoJobs: the fallback runs whatever the anchors gave
NoJobsAlways(jobs) == TRUE

\* `not jobs`, line 84
NoJobs(jobs) == jobs = << >>

\* lines 84-90
WithFallback(career_url, jobs, guess) ==
    IF NoJobs(jobs) /\ guess # ""
    THEN Returned(Append(jobs, [opening_title |-> guess, job_link |-> career_url]))
    ELSE Returned(jobs)

\* lines 77-90, of the anchors as that are job anchors
Openings(career_url, doc, as) ==
    IF \E i \in 1..Len(as) : UrljoinRaises(career_url, as[i].href)
    THEN Raised
    ELSE WithFallback(career_url,
                      [i \in 1..Len(as) |->
                          [opening_title |-> Strip(as[i].text),
                           job_link |-> urljoin(career_url, as[i].href)]],
                      Guess(doc))

\* extract_openings after its fetch returned html
extract_openings(career_url, html) ==
    IF Falsy(html) THEN Returned(<< >>)
    ELSE Openings(career_url, html.text, SelectSeq(find_all_a(html.text), IsJobAnchor))

\* the rows process_firm makes of the jobs of one page, lines 103-108
Rows(url, jobs) ==
    [k \in 1..Len(jobs) |->
        [firm_url |-> url, opening_title |-> jobs[k].opening_title,
         job_link |-> jobs[k].job_link]]

(***************************************************************************)
(* The inputs: the lines of the firms file and the content of the sites.   *)
(***************************************************************************)
\* line 126: ThreadPoolExecutor(max_workers=8)
max_workers == 8

Dead == "https://dead.com"

\* a site: the document behind each of its URLs
Sites ==
    ( "https://a.com" :>
        Doc(<< Anchor("Careers", "/careers"), Anchor("About", "/about"),
               Anchor("Join us", "https://a.com/careers"),
               Anchor("Open Jobs", "/jobs"), AnchorNoHref("Jobs") >>,
            << "A Architects" >>, << "A" >>) ) @@
    ( "https://a.com/careers" :>
        Doc(<< Anchor("  Senior Architect ", "/jobs/1"),
               Anchor("Interns welcome", "/interns"),
               Anchor("Intern", "intern") >>,
            << "Careers at A" >>, << >>) ) @@
    ( "https://a.com/jobs" :>
        Doc(<< Anchor("Home", "/") >>, << >>, << "Jobs - A" >>) ) @@
    ( "https://b.com" :>
        Doc(<< Anchor("Projects", "/projects") >>, << " Studio B " >>, << "B" >>) ) @@
    ( "https://e.com" :> EmptyBody ) @@
    ( "https://x.com" :>
        Doc(<< Anchor("Careers", "/careers") >>, << >>, << >>) ) @@
    ( "https://x.com/careers" :>
        Doc(<< Anchor("Project Manager", "http://[apply") >>, << "Work" >>, << >>) )

\* the lines a short firms file is made of
LinePool == {"https://a.com", "https://b.com ", "https://e.com", "https://x.com", Dead, "  "}

ShortFiles == UNION {[1..n -> LinePool] : n \in 0..MaxLines}

\* files with more firms than workers: one firm among unreachable ones
LongFiles ==
    {[i \in 1..(max_workers + MaxExtra) |-> IF i = p THEN r ELSE Dead] :
        p \in 1..(max_workers + MaxExtra), r \in {"https://b.com", Dead}}

\* the firm whose pages are drawn
PRoot == "https://p.com/studio/"
PUrls == {PRoot, "https://p.com/careers", "https://p.com/studio/jobs"}

RootAnchorPool ==
    { Anchor("Careers", "/careers"), Anchor("Work With Us", "https://p.com/careers"),
      Anchor("About", "/about"), Anchor("Team", "JOBS"), Anchor("Team", "jobs"),
      Anchor("Jobs", "http://[jobs"), AnchorNoHref("Careers") }

CareerAnchorPool ==
    { Anchor("Senior Architect", "/jobs/1"), Anchor(" Intern\n", "apply"),
      Anchor("Contact", "/contact"), Anchor("Site Manager", "//[apply"),
      AnchorNoHref("Designer") }

SeqsUpTo(pool, n) == UNION {[1..k -> pool] : k \in 0..n}

DefaultRoot == Doc(<< Anchor("Careers", "/careers") >>, << >>, << >>)
DefaultCareer == Doc(<< >>, << "Studio Careers" >>, << >>)

DrawnRoots == {Doc(as, << >>, << >>) : as \in SeqsUpTo(RootAnchorPool, MaxAnchors)}

DrawnCareers ==
    {Doc(as, hs, t) : as \in SeqsUpTo(CareerAnchorPool, MaxAnchors),
                      hs \in {<< >>, << "Studio Careers", "Other" >>, << " " >>},
                      t \in {<< >>, << "" >>, << "Careers | P" >>}}

\* the pages of the site of PRoot: its root page and its career pages
DrawnSites ==
    {[root |-> r, career |-> DefaultCareer] : r \in DrawnRoots} \cup
    {[root |-> DefaultRoot, career |-> c] : c \in DrawnCareers}

(***************************************************************************)
(* The state.                                                              *)
(***************************************************************************)
VARIABLES
    lines,        \* the lines of the firms file
    drawn,        \* the pages of the site of PRoot
    main_pc,      \* where main is: "read", "map", "flatten", "done", "aborted"
    firms,        \* line 123
    submitted,    \* the futures ex.map has made so far
    task,         \* per firm: the call of process_firm and its locals
    log,          \* per firm: what the call has done (history)
    overtaken,    \* some call has finished before a call of an earlier firm
    collected,    \* the firms whose result line 130 has taken, in order
    rows,         \* line 130
    stdout,       \* the lines printed
    csv           \* the rows of openings.csv, header first; << >> when not written

vars == << lines, drawn, main_pc, firms, submitted, task, log, overtaken,
           collected, rows, stdout, csv >>

NewTask == [pc |-> "new", career_pages |-> << >>, page |-> 0,
            all_jobs |-> << >>, raised |-> FALSE]

NewLog == [dispatched |-> 0, requests |-> << >>, outstanding |-> 0,
           root |-> "", located |-> << >>, extracts |-> << >>]

Init ==
    /\ \/ /\ lines \in ShortFiles \cup LongFiles
          /\ drawn = [root |-> DefaultRoot, career |-> DefaultCareer]
       \/ /\ lines = << PRoot >>
          /\ drawn \in DrawnSites
    /\ main_pc = "read"
    /\ firms = << >>
    /\ submitted = 0
    /\ task = << >>
    /\ log = << >>
    /\ overtaken = FALSE
    /\ collected = << >>
    /\ rows = << >>
    /\ stdout = << >>
    /\ csv = << >>

(***************************************************************************)
(* fetch and the worker pool.                                              *)
(***************************************************************************)
\* the URLs that answer, and the document behind each
Online == DOMAIN Sites \cup PUrls

Web(url) ==
    IF url \in DOMAIN Sites THEN Sites[url]
    ELSE IF url = PRoot THEN drawn.root
    ELSE drawn.career

\* what fetch(url) may return: None on any failure, else the body
Responses(url) ==
    {None} \cup (IF url \in Online THEN {Body(Web(url))} ELSE {})

\* what the log keeps of a fetch result
Kind(html) == IF ~html.ok THEN "none" ELSE IF html.text.empty THEN "empty" ELSE "body"

Tasks == 1..Len(firms)

\* the calls of process_firm a worker thread is in
Running == {i \in Tasks : task[i].pc \in {"root", "cand"}}

\* the mutant of WorkerAvailable: a thread for every work item
WorkerAlways == TRUE

\* a thread of the pool is free to take a work item, line 126
WorkerAvailable == Cardinality(Running) < max_workers

\* the mutant of ShutdownWait: the pool is left without waiting
ShutdownNoWait == TRUE

\* leaving the with block: shutdown(wait=True) joins the workers, line 126
ShutdownWait == \A i \in Tasks : task[i].pc = "done"

\* the mutant of NextResult: the futures are taken from the wrong end
NextResultLast == Len(firms) - Len(collected)

\* the future whose result the iterator of ex.map yields next, line 130
NextResult == Len(collected) + 1

\* the mutant of RootFailed: the root page is used whatever fetch returned
RootFailedNever(html) == FALSE

\* `if not root_html`, line 95
RootFailed(html) == Falsy(html)

\* process_firm of firm i ends: it returns its rows or raises
Finish(i, jobs, raises) ==
    /\ task' = [task EXCEPT ![i] = [@ EXCEPT !.pc = "done", !.all_jobs = jobs,
                                             !.raised = raises]]
    /\ overtaken' = (overtaken \/ \E j \in 1..(i - 1) : task[j].pc # "done")

(***************************************************************************)
(* main.                                                                   *)
(***************************************************************************)
\* line 123: the stripped non-blank lines
ReadFirms ==
    /\ main_pc = "read"
    /\ LET nonblank == SelectSeq(lines, LAMBDA l : Strip(l) # "")
       IN  firms' = [i \in 1..Len(nonblank) |-> Strip(nonblank[i])]
    /\ task' = [i \in 1..Len(firms') |-> NewTask]
    /\ log' = [i \in 1..Len(firms') |-> NewLog]
    /\ main_pc' = "map"
    /\ UNCHANGED << lines, drawn, submitted, overtaken, collected, rows, stdout, csv >>

\* line 127: ex.map submits process_firm for the next firm
Submit ==
    /\ main_pc = "map"
    /\ submitted < Len(firms)
    /\ submitted' = submitted + 1
    /\ task' = [task EXCEPT ![submitted + 1].pc = "queued"]
    /\ UNCHANGED << lines, drawn, main_pc, firms, log, overtaken, collected, rows,
                    stdout, csv >>

\* a worker takes the oldest work item: process_firm starts and fetches the root
Start(i) ==
    /\ task[i].pc = "queued"
    /\ \A j \in 1..(i - 1) : task[j].pc # "queued"
    /\ WorkerAvailable
    /\ task' = [task EXCEPT ![i].pc = "root"]
    /\ log' = [log EXCEPT ![i] = [@ EXCEPT !.dispatched = @ + 1,
                                           !.requests = Append(@, firms[i]),
                                           !.outstanding = @ + 1]]
    /\ UNCHANGED << lines, drawn, main_pc, firms, submitted, overtaken, collected,
                    rows, stdout, csv >>

\* the fetch of firm i returned; kept in the log
Back(i) == [log[i] EXCEPT !.outstanding = @ - 1]

\* process_firm of firm i goes on to fetch the first of pages
FetchFirst(i, html, found, pages) ==
    /\ task' = [task EXCEPT ![i] = [@ EXCEPT !.pc = "cand", !.career_pages = pages,
                                             !.page = 1]]
    /\ log' = [log EXCEPT ![i] = [Back(i) EXCEPT !.root = Kind(html),
                                                 !.located = found,
                                                 !.requests = Append(@, pages[1]),
                                                 !.outstanding = @ + 1]]
    /\ UNCHANGED overtaken

\* line 98, found being what find_career_pages did
AfterLocate(i, html, found) ==
    IF found.raised
    THEN Finish(i, << >>, TRUE) /\ log' = [log EXCEPT ![i] = [Back(i) EXCEPT !.root = Kind(html)]]
    ELSE FetchFirst(i, html, found.value,
                    IF found.value = << >> THEN << firms[i] >> ELSE found.value)

\* lines 94-102: the root fetch returns; the first candidate page is fetched
RootReply(i) ==
    /\ task[i].pc = "root"
    /\ \E html \in Responses(firms[i]) :
         IF RootFailed(html)
         THEN /\ Finish(i, << >>, FALSE)
              /\ log' = [log EXCEPT ![i] = [Back(i) EXCEPT !.root = Kind(html)]]
         ELSE AfterLocate(i, html, find_career_pages(firms[i], html.text))
    /\ UNCHANGED << lines, drawn, main_pc, firms, submitted, collected, rows,
                    stdout, csv >>

\* what the log keeps of extract_openings(page) having fetched html
Extracted(i, page, html, got) ==
    [Back(i) EXCEPT !.extracts = Append(@, [url |-> page, html |-> Kind(html),
                                            result |-> got])]

\* lines 102-110, got being what extract_openings(page) did
AfterExtract(i, page, html, got) ==
    IF got.raised
    THEN /\ Finish(i, << >>, TRUE)
         /\ log' = [log EXCEPT ![i] = Extracted(i, page, html, got)]
    ELSE IF task[i].page = Len(task[i].career_pages)
    THEN /\ Finish(i, task[i].all_jobs \o Rows(firms[i], got.value), FALSE)
         /\ log' = [log EXCEPT ![i] = Extracted(i, page, html, got)]
    ELSE /\ task' = [task EXCEPT ![i] =
                        [@ EXCEPT !.all_jobs = @ \o Rows(firms[i], got.value),
                                  !.page = @ + 1]]
         /\ log' = [log EXCEPT ![i] =
                       [Extracted(i, page, html, got) EXCEPT
                          !.requests = Append(@, task[i].career_pages[task[i].page + 1]),
                          !.outstanding = @ + 1]]
         /\ UNCHANGED overtaken

\* lines 101-110: the fetch of a candidate page returns; the next one is
\* fetched, or process_firm returns
CandReply(i) ==
    /\ task[i].pc = "cand"
    /\ \E page \in {task[i].career_pages[task[i].page]} :
         \E html \in Responses(page) :
            AfterExtract(i, page, html, extract_openings(page, html))
    /\ UNCHANGED << lines, drawn, main_pc, firms, submitted, collected, rows,
                    stdout, csv >>

\* lines 126-128: every firm is submitted and the with block is left
ExitWith ==
    /\ main_pc = "map"
    /\ submitted = Len(firms)
    /\ ShutdownWait
    /\ main_pc' = "flatten"
    /\ UNCHANGED << lines, drawn, firms, submitted, task, log, overtaken, collected,
                    rows, stdout, csv >>

\* line 130: the next result is taken and its rows are added; a call that
\* raised raises again here, the iterator cancels the futures left and main
\* ends with the exception
Collect ==
    /\ main_pc = "flatten"
    /\ Len(collected) < Len(firms)
    /\ task[NextResult].pc = "done"
    /\ IF task[NextResult].raised
       THEN /\ main_pc' = "aborted"
            /\ task' = [i \in Tasks |->
                          IF task[i].pc \in {"new", "queued"}
                          THEN [task[i] EXCEPT !.pc = "cancelled"] ELSE task[i]]
            /\ UNCHANGED << collected, rows >>
       ELSE /\ collected' = Append(collected, NextResult)
            /\ rows' = rows \o task[NextResult].all_jobs
            /\ UNCHANGED << main_pc, task >>
    /\ UNCHANGED << lines, drawn, firms, submitted, log, overtaken, stdout, csv >>

Header == [firm_url |-> "firm_url", opening_title |-> "opening_title",
           job_link |-> "job_link"]

\* lines 132-142
Report ==
    /\ main_pc = "flatten"
    /\ Len(collected) = Len(firms)
    /\ IF rows = << >>
       THEN /\ stdout' = Append(stdout, "No openings found.")
            /\ UNCHANGED csv
       ELSE /\ csv' = << Header >> \o rows
            /\ stdout' = Append(stdout, "Saved " \o ToString(Len(rows))
                                          \o " openings to openings.csv")
    /\ main_pc' = "done"
    /\ UNCHANGED << lines, drawn, firms, submitted, task, log, overtaken, collected,
                    rows >>

Next ==
    \/ ReadFirms
    \/ Submit
    \/ \E i \in Tasks : Start(i)
    \/ \E i \in Tasks : RootReply(i)
    \/ \E i \in Tasks : CandReply(i)
    \/ ExitWith
    \/ Collect
    \/ Report

Spec == Init /\ [][Next]_vars

(***************************************************************************)
(* The properties.                                                         *)
(***************************************************************************)
RECURSIVE NonBlank(_)
\* the non-blank lines of a file, stripped, in the order of the file
NonBlank(ls) ==
    IF ls = << >> THEN << >>
    ELSE IF Strip(Head(ls)) = "" THEN NonBlank(Tail(ls))
    ELSE << Strip(Head(ls)) >> \o NonBlank(Tail(ls))

RECURSIVE RowsUpTo(_)
\* the rows of the first n firms, firm by firm
RowsUpTo(n) == IF n = 0 THEN << >> ELSE RowsUpTo(n - 1) \o task[n].all_jobs

RECURSIVE Outstanding(_)
\* the fetches the first n calls of process_firm are waiting for
Outstanding(n) == IF n = 0 THEN 0 ELSE Outstanding(n - 1) + log[n].outstanding

NoRepeat(seq) == \A p, q \in 1..Len(seq) : seq[p] = seq[q] => p = q

FirstAt(seq, x) == CHOOSE p \in 1..Len(seq) : seq[p] = x /\ \A q \in 1..(p - 1) : seq[q] # x

Started == main_pc # "read"

\* C1: the results are collected in the order of the non-blank input lines:
\* the k-th result taken is that of the call for the k-th non-blank line, and
\* the flattened rows are the rows of firm 1, then of firm 2, and so on
C1_InputOrder ==
    Started =>
        /\ firms = NonBlank(lines)
        /\ collected = [k \in 1..Len(collected) |-> k]
        /\ \A i \in Tasks : log[i].requests # << >> => log[i].requests[1] = firms[i]
        /\ \A i \in Tasks : \A k \in 1..Len(task[i].all_jobs) :
               task[i].all_jobs[k].firm_url = firms[i]
        /\ rows = RowsUpTo(Len(collected))

\* two different firms with rows, the later one finished first, all reported
C1_Witness ==
    /\ main_pc = "done"
    /\ overtaken
    /\ Len(firms) >= 2
    /\ firms[1] # firms[2]
    /\ task[1].all_jobs # << >>
    /\ task[2].all_jobs # << >>
    /\ task[1].pc = "done" /\ task[2].pc = "done"

\* C2: no failure while a firm is processed aborts the scan: no call of
\* process_firm raises, and main never ends with an exception
C2_FailuresAbsorbed ==
    /\ \A i \in Tasks : ~task[i].raised
    /\ main_pc # "aborted"
    /\ main_pc = "done" => rows = RowsUpTo(Len(firms))

\* C3: when main has ended, every firm was dispatched exactly once and its
\* result was collected exactly once
C3_ExactlyOnce ==
    main_pc \in {"done", "aborted"} =>
        \A i \in Tasks :
            /\ log[i].dispatched = 1
            /\ Cardinality({k \in 1..Len(collected) : collected[k] = i}) = 1

\* C4: at most max_workers calls of process_firm run at once, each waits for
\* at most one fetch, the root fetch being its first, so at most max_workers
\* requests are out at once
C4_PoolBound ==
    Started =>
        /\ Cardinality(Running) <= max_workers
        /\ \A i \in Tasks :
              /\ log[i].outstanding = (IF i \in Running THEN 1 ELSE 0)
              /\ log[i].requests # << >> => log[i].requests[1] = firms[i]
        /\ Outstanding(Len(firms)) <= max_workers

\* every worker is busy and a firm waits in the queue
C4_Witness ==
    /\ Started
    /\ Cardinality(Running) = max_workers
    /\ Outstanding(Len(firms)) = max_workers
    /\ \E i \in Tasks : task[i].pc = "queued"

\* C5: main flattens and reports only when every call of process_firm has
\* ended, and no call is ever cancelled
C5_ReportAfterAll ==
    Started =>
        /\ main_pc \in {"flatten", "done", "aborted"} =>
               \A i \in Tasks : task[i].pc = "done"
        /\ \A i \in Tasks : task[i].pc # "cancelled"
        /\ stdout # << >> \/ csv # << >> => main_pc = "done"

\* the report is made of a scan in which one firm failed and another had rows
C5_Witness ==
    /\ main_pc = "done"
    /\ csv # << >>
    /\ \E i, j \in Tasks : log[i].root = "none" /\ task[j].all_jobs # << >>

\* C6: a firm whose root fetch failed has an empty result, no note is
\* printed for it and no candidate page is fetched for it
C6_RootFailureEmpty ==
    \A i \in Tasks :
        log[i].root = "none" =>
            /\ task[i].pc = "done"
            /\ ~task[i].raised
            /\ task[i].all_jobs = << >>
            /\ log[i].requests = << firms[i] >>
            /\ \A k \in 1..Len(stdout) : ~Contains(firms[i], stdout[k])

\* a scan is reported in which the root fetch of the only firm with a
\* reachable site failed once and succeeded once
C6_Witness ==
    /\ main_pc = "done"
    /\ stdout # << >>
    /\ \E i, j \in Tasks :
          /\ firms[i] = firms[j]
          /\ log[i].root = "none"
          /\ task[j].all_jobs # << >>

\* C7: in the report, every firm whose root fetch failed has the line
\* "<firm>: could not reach site"
C7_StatusLine ==
    main_pc = "done" =>
        \A i \in Tasks :
            log[i].root = "none" =>
                \E k \in 1..Len(stdout) :
                    stdout[k] = firms[i] \o ": could not reach site"

\* the career-page URLs of the root page of firm i
CareerLinks(i) ==
    {urljoin(firms[i], a.href) :
        a \in {CareerAnchors(Web(firms[i]))[k] :
                  k \in 1..Len(CareerAnchors(Web(firms[i])))}}

\* C8: a firm whose root fetch returned a body is sent 1 + N requests, N the
\* number of distinct career-page URLs, or 1 with the root fetched again
C8_RequestCount ==
    \A i \in Tasks :
        task[i].pc = "done" /\ log[i].root \in {"body", "empty"} =>
            IF CareerLinks(i) = {}
            THEN log[i].requests = << firms[i], firms[i] >>
            ELSE /\ Len(log[i].requests) = 1 + Cardinality(CareerLinks(i))
                 /\ NoRepeat(SubSeq(log[i].requests, 2, Len(log[i].requests)))

\* the extractions of fetched pages that returned
Extractions ==
    {e \in UNION {{log[i].extracts[k] : k \in 1..Len(log[i].extracts)} : i \in Tasks} :
        e.html = "body" /\ ~e.result.raised}

\* C9: when an anchor of the page is a job anchor, the openings are those of
\* the job anchors and nothing else; when none is, the openings are the one
\* opening of the guess (first h1/h2 text, else the title) with the URL of
\* the page as link, or none when the guess is empty
C9_Fallback ==
    Started =>
        \A e \in Extractions :
            LET doc == Web(e.url)
                as == SelectSeq(find_all_a(doc), IsJobAnchor)
                guess == IF doc.headings # << >> THEN Strip(Head(doc.headings))
                         ELSE IF doc.title # << >> THEN Head(doc.title)
                         ELSE ""
            IN  IF as # << >>
                THEN /\ Len(e.result.value) = Len(as)
                     /\ \A k \in 1..Len(as) :
                            e.result.value[k].opening_title = Strip(as[k].text)
                ELSE IF guess # ""
                THEN e.result.value =
                         << [opening_title |-> guess, job_link |-> e.url] >>
                ELSE e.result.value = << >>

\* the fallback of the heading "Studio Careers" has been taken, and that of
\* a title as well
C9_Witness ==
    /\ Started
    /\ \E e \in Extractions :
          /\ Web(e.url).anchors # << >>
          /\ e.result.value = << [opening_title |-> "Studio Careers",
                                  job_link |-> "https://p.com/careers"] >>

\* C10: find_career_pages returns each resolved URL of a keyword anchor once,
\* in the order of first occurrence, nothing when no anchor matches, and no
\* candidate page of a firm is fetched twice
C10_Dedup ==
    \A i \in Tasks :
        Len(log[i].requests) >= 2 =>
            LET as == CareerAnchors(Web(firms[i]))
                links == [k \in 1..Len(as) |-> urljoin(firms[i], as[k].href)]
                found == log[i].located
            IN  /\ {found[k] : k \in 1..Len(found)} = {links[k] : k \in 1..Len(links)}
                /\ NoRepeat(found)
                /\ \A p, q \in 1..Len(found) :
                       p < q => FirstAt(links, found[p]) < FirstAt(links, found[q])
                /\ as = << >> => found = << >>
                /\ NoRepeat(SubSeq(log[i].requests, 2, Len(log[i].requests)))

\* a root page with three keyword anchors, two of the same URL, was located
\* and both of its career pages were fetched
C10_Witness ==
    /\ Started
    /\ \E i \in Tasks :
          /\ task[i].pc = "done"
          /\ Len(CareerAnchors(Web(firms[i]))) = 3
          /\ Len(log[i].located) = 2
          /\ Len(log[i].requests) = 3

=============================================================================
